---- MODULE Spec2Model ----
(***************************************************************************)
(* The student-record store of task6.cpp (class StudentDatabase), the      *)
(* flat text file it is synced to, and the menu loop that drives it.       *)
(*                                                                         *)
(* Text is modelled character by character: a line of the database file    *)
(* is a sequence of one-character strings, the file is a sequence of       *)
(* lines, and a surname is a sequence of characters.  A GPA (a double in   *)
(* the source) is modelled as an integer number of hundredths, which is    *)
(* the resolution needed to tell "written with one decimal" from "kept in  *)
(* memory".                                                                *)
(***************************************************************************)
EXTENDS Integers, Sequences, FiniteSets, TLC

(***************************************************************************)
(* Bounds of the model.                                                    *)
(***************************************************************************)
MaxStudents == 6
MaxFileLines == 2
MaxLoads == 1

(***************************************************************************)
(* Characters and the stream extraction operators used by loadFromFile.    *)
(***************************************************************************)
INT_MAX == 2147483647

DigitChars == <<"0", "1", "2", "3", "4", "5", "6", "7", "8", "9">>

IsDigit(c) == \E d \in 1..10 : DigitChars[d] = c

DigitVal(c) == (CHOOSE d \in 1..10 : DigitChars[d] = c) - 1

IsSpace(c) == c \in {" ", "\t", "\n"}

HasSpace(text) == \E k \in 1..Len(text) : IsSpace(text[k])

\* First position j >= i of line that is past the end or holds no blank.
SkipSpace(line, i) ==
    CHOOSE j \in i..(Len(line) + 1) :
        /\ \A k \in i..(j - 1) : IsSpace(line[k])
        /\ (j = Len(line) + 1 \/ ~IsSpace(line[j]))

\* First position j >= i of line that is past the end or holds a blank.
ScanWord(line, i) ==
    CHOOSE j \in i..(Len(line) + 1) :
        /\ \A k \in i..(j - 1) : ~IsSpace(line[k])
        /\ (j = Len(line) + 1 \/ IsSpace(line[j]))

\* First position j >= i of line that is past the end or holds no digit.
ScanDigits(line, i) ==
    CHOOSE j \in i..(Len(line) + 1) :
        /\ \A k \in i..(j - 1) : IsDigit(line[k])
        /\ (j = Len(line) + 1 \/ ~IsDigit(line[j]))

\* First position j >= i of line that is past the end or holds no "0".
ScanZeros(line, i) ==
    CHOOSE j \in i..(Len(line) + 1) :
        /\ \A k \in i..(j - 1) : line[k] = "0"
        /\ (j = Len(line) + 1 \/ line[j] # "0")

\* Value of the decimal digits line[i] .. line[j-1].
RECURSIVE DigitsValue(_, _, _)
DigitsValue(line, i, j) ==
    IF j <= i THEN 0
    ELSE DigitsValue(line, i, j - 1) * 10 + DigitVal(line[j - 1])

HasSign(line, s) == s <= Len(line) /\ line[s] \in {"+", "-"}

\* Do the digits line[d] .. line[e-1] exceed the range of a 32-bit int?
IntOverflows(line, d, e, neg) ==
    LET z == ScanZeros(line, d)
        n == e - z
    IN IF n < 10 THEN FALSE
       ELSE IF n > 10 THEN TRUE
       ELSE LET head == DigitsValue(line, z, e - 1)
                last == DigitVal(line[e - 1])
            IN \/ head > INT_MAX \div 10
               \/ /\ head = INT_MAX \div 10
                  /\ last > (INT_MAX % 10) + (IF neg THEN 1 ELSE 0)

\* iss >> int : skip blanks, optional sign, at least one digit.
ExtractInt(line, i) ==
    LET s == SkipSpace(line, i)
        neg == HasSign(line, s) /\ line[s] = "-"
        d == IF HasSign(line, s) THEN s + 1 ELSE s
        e == ScanDigits(line, d)
    IN IF e = d THEN [ok |-> FALSE, val |-> 0, next |-> e]
       ELSE IF IntOverflows(line, d, e, neg)
            THEN [ok |-> FALSE, val |-> INT_MAX, next |-> e]
       ELSE LET v == DigitsValue(line, d, e)
            IN [ok |-> TRUE, val |-> IF neg THEN 0 - v ELSE v, next |-> e]

\* iss >> string : skip blanks, then every character up to the next blank.
ExtractWord(line, i) ==
    LET s == SkipSpace(line, i)
        e == ScanWord(line, s)
    IN [ok |-> e > s, val |-> SubSeq(line, s, e - 1), next |-> e]

\* iss >> double : skip blanks, optional sign, digits, optional point and
\* digits; at least one digit in all.  The value is in hundredths; digits
\* after the second decimal are consumed and do not change it.  Exponents
\* are not modelled.
ExtractReal(line, i) ==
    LET s == SkipSpace(line, i)
        neg == HasSign(line, s) /\ line[s] = "-"
        d == IF HasSign(line, s) THEN s + 1 ELSE s
        e1 == ScanDigits(line, d)
        hasPoint == e1 <= Len(line) /\ line[e1] = "."
        f == IF hasPoint THEN e1 + 1 ELSE e1
        e2 == ScanDigits(line, f)
        tenths == IF e2 > f THEN DigitVal(line[f]) ELSE 0
        hundredths == IF e2 > f + 1 THEN DigitVal(line[f + 1]) ELSE 0
        v == DigitsValue(line, d, e1) * 100 + tenths * 10 + hundredths
    IN IF (e1 - d) + (e2 - f) = 0 THEN [ok |-> FALSE, val |-> 0, next |-> e2]
       ELSE [ok |-> TRUE, val |-> IF neg THEN 0 - v ELSE v, next |-> e2]

(***************************************************************************)
(* Student and Student::isValid.                                           *)
(***************************************************************************)
Student(id, surname, birthYear, studyYear, gpa) ==
    [id |-> id, surname |-> surname, birthYear |-> birthYear,
     studyYear |-> studyYear, gpa |-> gpa]

\* isValid without the upper bound on the GPA.
isValidNoGpaUpperBound(s) ==
    /\ s.id > 0
    /\ s.surname # <<>>
    /\ s.birthYear >= 1950 /\ s.birthYear <= 2015
    /\ s.studyYear >= 1 /\ s.studyYear <= 4
    /\ s.gpa >= 0

\* isValid with the lower birth year bound exclusive.
isValidBirthYearExclusive(s) ==
    /\ s.id > 0
    /\ s.surname # <<>>
    /\ s.birthYear > 1950 /\ s.birthYear <= 2015
    /\ s.studyYear >= 1 /\ s.studyYear <= 4
    /\ s.gpa >= 0 /\ s.gpa <= 500

isValid(s) ==
    /\ s.id > 0
    /\ s.surname # <<>>
    /\ s.birthYear >= 1950 /\ s.birthYear <= 2015
    /\ s.studyYear >= 1 /\ s.studyYear <= 4
    /\ s.gpa >= 0 /\ s.gpa <= 500

(***************************************************************************)
(* One line of the file as loadFromFile reads it:                          *)
(*   iss >> id >> surname >> birthYear >> studyYear >> gpa                 *)
(* An extraction that fails makes every later one fail.                    *)
(***************************************************************************)
ParseLine(line) ==
    LET a == ExtractInt(line, 1)
        b == ExtractWord(line, a.next)
        c == ExtractInt(line, b.next)
        d == ExtractInt(line, c.next)
        e == ExtractReal(line, d.next)
    IN IF ~a.ok THEN [ok |-> FALSE, student |-> Student(0, <<>>, 0, 0, 0)]
       ELSE IF ~b.ok THEN [ok |-> FALSE, student |-> Student(a.val, <<>>, 0, 0, 0)]
       ELSE IF ~c.ok THEN [ok |-> FALSE, student |-> Student(a.val, b.val, 0, 0, 0)]
       ELSE IF ~d.ok THEN [ok |-> FALSE, student |-> Student(a.val, b.val, c.val, 0, 0)]
       ELSE IF ~e.ok THEN [ok |-> FALSE, student |-> Student(a.val, b.val, c.val, d.val, 0)]
       ELSE [ok |-> TRUE, student |-> Student(a.val, b.val, c.val, d.val, e.val)]

(***************************************************************************)
(* Output formatting used by saveToFile.                                   *)
(***************************************************************************)
\* output << int
RECURSIVE FormatNat(_)
FormatNat(n) ==
    IF n < 10 THEN <<DigitChars[n + 1]>>
    ELSE Append(FormatNat(n \div 10), DigitChars[(n % 10) + 1])

FormatInt(n) == IF n < 0 THEN <<"-">> \o FormatNat(0 - n) ELSE FormatNat(n)

\* The GPAs h/100 with h % 10 = 5 whose double is printed rounded up by
\* fixed << setprecision(1); the others with h % 10 = 5 are printed rounded
\* down (the double nearest to h/100 lies below the tie, or is the tie
\* itself and the even neighbour is the lower one).
TieRoundsUp ==
    {5, 45, 55, 65, 75, 105, 135, 155, 175, 185, 235, 245, 275, 285, 295,
     335, 345, 375, 385, 395, 415, 445, 465, 475, 495}

\* Tenths printed for a non-negative GPA of h hundredths.
RoundToTenths(h) ==
    IF h % 10 < 5 THEN h \div 10
    ELSE IF h % 10 > 5 THEN (h \div 10) + 1
    ELSE IF h \in TieRoundsUp THEN (h \div 10) + 1
    ELSE h \div 10

\* output << fixed << setprecision(1) << gpa
FormatGpa(h) ==
    LET t == RoundToTenths(IF h < 0 THEN 0 - h ELSE h)
    IN (IF h < 0 THEN <<"-">> ELSE <<>>)
       \o FormatNat(t \div 10) \o <<".">> \o <<DigitChars[(t % 10) + 1]>>

\* One line written by saveToFile (without the line terminator).
FormatLine(s) ==
    FormatInt(s.id) \o <<" ">> \o s.surname \o <<" ">>
    \o FormatInt(s.birthYear) \o <<" ">> \o FormatInt(s.studyYear) \o <<" ">>
    \o FormatGpa(s.gpa)

(***************************************************************************)
(* The database file: missing, or a sequence of lines.                     *)
(***************************************************************************)
NoFile == [exists |-> FALSE, lines |-> <<>>]

FileOf(lines) == [exists |-> TRUE, lines |-> lines]

(***************************************************************************)
(* class StudentDatabase.  Each member function is an operator from the    *)
(* object's students_ (and the file) to the values after the call.         *)
(***************************************************************************)
\* The loop body without the isValid() test.
LoadLineNoValidation(students, line) ==
    IF line = <<>> THEN students
    ELSE LET p == ParseLine(line)
         IN IF p.ok THEN Append(students, p.student) ELSE students

\* One turn of the while (getline(input, line)) loop.
LoadLine(students, line) ==
    IF line = <<>> THEN students
    ELSE LET p == ParseLine(line)
         IN IF p.ok /\ isValid(p.student) THEN Append(students, p.student)
            ELSE students

RECURSIVE ReadLines(_, _)
ReadLines(students, lines) ==
    IF lines = <<>> THEN students
    ELSE ReadLines(LoadLine(students, Head(lines)), Tail(lines))

loadFromFile(students, file) ==
    IF ~file.exists THEN students
    ELSE ReadLines(students, file.lines)

Ivanov == <<"I", "v", "a", "n", "o", "v">>
Petrov == <<"P", "e", "t", "r", "o", "v">>
Sidorov == <<"S", "i", "d", "o", "r", "o", "v">>
Sokolov == <<"S", "o", "k", "o", "l", "o", "v">>
Kozlov == <<"K", "o", "z", "l", "o", "v">>

\* The sample data with the second and third record exchanged.
initializeSampleDataReordered ==
    << Student(101, Ivanov, 2005, 1, 450),
       Student(103, Sidorov, 2006, 1, 420),
       Student(102, Petrov, 2004, 2, 380),
       Student(104, Sokolov, 2003, 3, 390),
       Student(105, Kozlov, 2004, 2, 410) >>

initializeSampleData ==
    << Student(101, Ivanov, 2005, 1, 450),
       Student(102, Petrov, 2004, 2, 380),
       Student(103, Sidorov, 2006, 1, 420),
       Student(104, Sokolov, 2003, 3, 390),
       Student(105, Kozlov, 2004, 2, 410) >>

\* The constructor.
StudentDatabase(file) ==
    LET loaded == loadFromFile(<<>>, file)
    IN IF loaded = <<>> THEN initializeSampleData ELSE loaded

\* saveToFile opening the file in append mode.
saveToFileAppendMode(students, file, canOpen) ==
    IF ~canOpen THEN [file |-> file, error |-> "CannotOpen"]
    ELSE [file |-> FileOf(file.lines
                          \o [i \in 1..Len(students) |-> FormatLine(students[i])]),
          error |-> "none"]

\* saveToFile without the is_open() test.
saveToFileIgnoresOpenFailure(students, file, canOpen) ==
    IF ~canOpen THEN [file |-> file, error |-> "none"]
    ELSE [file |-> FileOf([i \in 1..Len(students) |-> FormatLine(students[i])]),
          error |-> "none"]

\* canOpen: does ofstream output(DB_FILE) open?
saveToFile(students, file, canOpen) ==
    IF ~canOpen THEN [file |-> file, error |-> "CannotOpen"]
    ELSE [file |-> FileOf([i \in 1..Len(students) |-> FormatLine(students[i])]),
          error |-> "none"]

\* find_if from position i on; Len(students) + 1 stands for end().
RECURSIVE FindIf(_, _, _)
FindIf(students, id, i) ==
    IF i > Len(students) THEN i
    ELSE IF students[i].id = id THEN i
    ELSE FindIf(students, id, i + 1)

\* The position of the record found, 0 for nullptr.
findById(students, id) ==
    LET it == FindIf(students, id, 1)
    IN IF it # Len(students) + 1 THEN it ELSE 0

\* addStudent without the duplicate test.
addStudentNoDuplicateCheck(students, file, student, canOpen) ==
    IF ~isValid(student)
    THEN [students |-> students, file |-> file, error |-> "InvalidRecord"]
    ELSE LET pushed == Append(students, student)
             saved == saveToFile(pushed, file, canOpen)
         IN [students |-> pushed, file |-> saved.file, error |-> saved.error]

\* addStudent testing for a duplicate only after push_back.
addStudentChecksAfterPush(students, file, student, canOpen) ==
    IF ~isValid(student)
    THEN [students |-> students, file |-> file, error |-> "InvalidRecord"]
    ELSE LET pushed == Append(students, student)
             saved == saveToFile(pushed, file, canOpen)
         IN IF findById(students, student.id) # 0
            THEN [students |-> pushed, file |-> file, error |-> "DuplicateId"]
            ELSE [students |-> pushed, file |-> saved.file, error |-> saved.error]

\* addStudent testing for a duplicate before isValid().
addStudentChecksDuplicateFirst(students, file, student, canOpen) ==
    IF findById(students, student.id) # 0
    THEN [students |-> students, file |-> file, error |-> "DuplicateId"]
    ELSE IF ~isValid(student)
    THEN [students |-> students, file |-> file, error |-> "InvalidRecord"]
    ELSE LET pushed == Append(students, student)
             saved == saveToFile(pushed, file, canOpen)
         IN [students |-> pushed, file |-> saved.file, error |-> saved.error]

\* addStudent taking the record out again when the write fails.
addStudentRollsBack(students, file, student, canOpen) ==
    IF ~isValid(student)
    THEN [students |-> students, file |-> file, error |-> "InvalidRecord"]
    ELSE IF findById(students, student.id) # 0
    THEN [students |-> students, file |-> file, error |-> "DuplicateId"]
    ELSE LET pushed == Append(students, student)
             saved == saveToFile(pushed, file, canOpen)
         IN [students |-> IF saved.error = "none" THEN pushed ELSE students,
             file |-> saved.file, error |-> saved.error]

addStudent(students, file, student, canOpen) ==
    IF ~isValid(student)
    THEN [students |-> students, file |-> file, error |-> "InvalidRecord"]
    ELSE IF findById(students, student.id) # 0
    THEN [students |-> students, file |-> file, error |-> "DuplicateId"]
    ELSE LET pushed == Append(students, student)
             saved == saveToFile(pushed, file, canOpen)
         IN [students |-> pushed, file |-> saved.file, error |-> saved.error]

(***************************************************************************)
(* Search predicates: the lambdas built by task6 and handleNumericSearch,  *)
(* and the two constant predicates.                                        *)
(***************************************************************************)
Pred(kind, num, text) == [kind |-> kind, num |-> num, text |-> text]

Matches(pred, s) ==
    CASE pred.kind = "id" -> s.id = pred.num
      [] pred.kind = "surname" -> s.surname = pred.text
      [] pred.kind = "birthYear" -> s.birthYear = pred.num
      [] pred.kind = "studyYear" -> s.studyYear = pred.num
      [] pred.kind = "gpaAtLeast" -> s.gpa >= pred.num
      [] pred.kind = "all" -> TRUE
      [] OTHER -> FALSE

\* copy_if inserting at the front of results.
RECURSIVE CopyIfFrontInserter(_, _, _)
CopyIfFrontInserter(students, pred, results) ==
    IF students = <<>> THEN results
    ELSE CopyIfFrontInserter(Tail(students), pred,
                             IF Matches(pred, Head(students))
                             THEN <<Head(students)>> \o results ELSE results)

\* copy_if(students_.begin(), students_.end(), back_inserter(results), p)
RECURSIVE CopyIf(_, _, _)
CopyIf(students, pred, results) ==
    IF students = <<>> THEN results
    ELSE CopyIf(Tail(students), pred,
                IF Matches(pred, Head(students))
                THEN Append(results, Head(students)) ELSE results)

\* displayTable: the table goes to the console and, appended, to OUTPUT_FILE;
\* when DualOutputWriter cannot open OUTPUT_FILE nothing is written and the
\* runtime_error is caught and reported.  canOpenOut: does OUTPUT_FILE open?
displayTable(records, canOpenOut) ==
    IF canOpenOut THEN "Table" ELSE "CannotOpenOutput"

\* The records search hands to displayTable; none when it reports
\* "No records found matching criteria."
search(students, pred, canOpenOut) ==
    LET results == CopyIf(students, pred, <<>>)
    IN [results |-> results,
        report |-> IF results = <<>> THEN "NoRecordsFound"
                   ELSE displayTable(results, canOpenOut)]

displayAll(students, canOpenOut) ==
    [results |-> students,
     report |-> IF students = <<>> THEN "DatabaseEmpty"
                ELSE displayTable(students, canOpenOut)]

getSize(students) == Len(students)

(***************************************************************************)
(* Inputs.                                                                 *)
(***************************************************************************)
Li == <<"L", "i">>
Xu == <<"X", "u">>
Orlov == <<"O", "r", "l", "o", "v">>
Dup == <<"D", "u", "p">>
VanDamme == <<"V", "a", "n", " ", "D", "a", "m", "m", "e">>

XuLine == <<"7", " ", "X", "u", " ", "1", "9", "9", "9", " ", "2", " ", "3", ".", "0">>

\* Lines a database file may hold.
LinePool ==
    { <<>>,
      XuLine,
      <<"7", "L", "i", " ", "2", "0", "0", "0", " ", "1", ".", "5", " ", "4">>,
      <<"8", " ", "L", "i", " ", "1", "9", "0", "0", " ", "1", " ", "4", ".", "5">>,
      <<"9", " ", "L", "i", "\t", "x", " ", "1", " ", "4", ".", "5">>,
      <<" ", "\t">>,
      <<"9", "9", "9", "9", "9", "9", "9", "9", "9", "9", "9", " ", "L", "i", " ", "2", "0", "0", "0", " ", "1", " ", "4", ".", "5">> }

RECURSIVE SeqsUpTo(_, _)
SeqsUpTo(S, n) ==
    IF n = 0 THEN {<<>>}
    ELSE LET shorter == SeqsUpTo(S, n - 1)
         IN shorter \cup {Append(q, x) : q \in shorter, x \in S}

\* Files the loading specification starts from.
Files == {NoFile} \cup {FileOf(lines) : lines \in SeqsUpTo(LinePool, MaxFileLines)}

\* Files the specification of the whole store starts from: none, one record.
StartFiles == {NoFile, FileOf(<<XuLine>>)}

\* Records handed to addStudent.
AddInputs ==
    { Student(106, Orlov, 2005, 1, 400),
      Student(7, Li, 1950, 4, 425),
      Student(7, VanDamme, 2015, 1, 500),
      Student(101, Dup, 2000, 1, 300),
      Student(0, Li, 2000, 1, 300),
      Student(9, <<>>, 2000, 1, 300),
      Student(9, Li, 1949, 1, 300),
      Student(9, Li, 2016, 1, 300),
      Student(9, Li, 2000, 0, 300),
      Student(9, Li, 2000, 5, 300),
      Student(9, Li, 2000, 1, 0 - 10),
      Student(9, Li, 2000, 1, 550),
      Student(101, Dup, 1900, 1, 300) }

IdInputs == {7, 101, 106}

PredInputs ==
    { Pred("id", 101, <<>>),
      Pred("surname", 0, Li),
      Pred("birthYear", 2004, <<>>),
      Pred("studyYear", 1, <<>>),
      Pred("gpaAtLeast", 420, <<>>),
      Pred("all", 0, <<>>),
      Pred("none", 0, <<>>) }

(***************************************************************************)
(* The state machine: one StudentDatabase object and the file.             *)
(***************************************************************************)
\* loads counts the calls of loadFromFile made after the constructor returned.
\* cin is the console input typed and not yet read (used by the menu loop).
\* memo_ is the cache of the FibonacciCalculator and calls the stack of its
\* calls in progress (used by its specification).
VARIABLES phase, students_, dbFile, last, loads, cin, memo_, calls

vars == <<phase, students_, dbFile, last, loads, cin, memo_, calls>>

NoStudent == Student(0, <<>>, 0, 0, 0)

NoPred == Pred("none", 0, <<>>)

\* What the last call was, what it was given and what it gave back.
Call(op, student, id, pred, error, found, results, report) ==
    [op |-> op, student |-> student, id |-> id, pred |-> pred,
     error |-> error, found |-> found, results |-> results, report |-> report]

Init ==
    /\ phase = "new"
    /\ students_ = <<>>
    /\ dbFile \in StartFiles
    /\ last = Call("none", NoStudent, 0, NoPred, "none", 0, <<>>, "")
    /\ loads = 0
    /\ cin = <<>>
    /\ memo_ = <<>>
    /\ calls = <<>>

Construct ==
    /\ phase = "new"
    /\ phase' = "ready"
    /\ students_' = StudentDatabase(dbFile)
    /\ last' = Call("StudentDatabase", NoStudent, 0, NoPred, "none", 0, <<>>, "")
    /\ UNCHANGED <<dbFile, loads, cin, memo_, calls>>

LoadFromFile ==
    /\ phase = "ready"
    /\ loads < MaxLoads
    /\ loads' = loads + 1
    /\ Len(loadFromFile(students_, dbFile)) <= MaxStudents
    /\ students_' = loadFromFile(students_, dbFile)
    /\ last' = Call("loadFromFile", NoStudent, 0, NoPred, "none", 0, <<>>, "")
    /\ UNCHANGED <<phase, dbFile, cin, memo_, calls>>

InitializeSampleData ==
    /\ phase = "ready"
    /\ students_' = initializeSampleData
    /\ last' = Call("initializeSampleData", NoStudent, 0, NoPred, "none", 0, <<>>, "")
    /\ UNCHANGED <<phase, dbFile, loads, cin, memo_, calls>>

SaveToFile(canOpen) ==
    /\ phase = "ready"
    /\ LET r == saveToFile(students_, dbFile, canOpen)
       IN /\ dbFile' = r.file
          /\ last' = Call("saveToFile", NoStudent, 0, NoPred, r.error, 0, <<>>, "")
    /\ UNCHANGED <<phase, students_, loads, cin, memo_, calls>>

AddStudent(student, canOpen) ==
    /\ phase = "ready"
    /\ Len(students_) < MaxStudents
    /\ LET r == addStudent(students_, dbFile, student, canOpen)
       IN /\ students_' = r.students
          /\ dbFile' = r.file
          /\ last' = Call("addStudent", student, 0, NoPred, r.error, 0, <<>>, "")
    /\ UNCHANGED <<phase, loads, cin, memo_, calls>>

FindById(id) ==
    /\ phase = "ready"
    /\ last' = Call("findById", NoStudent, id, NoPred, "none",
                    findById(students_, id), <<>>, "")
    /\ UNCHANGED <<phase, students_, dbFile, loads, cin, memo_, calls>>

\* A search that keeps only the matching records in students_.
SearchErasesOthers(pred, canOpenOut) ==
    /\ phase = "ready"
    /\ LET r == search(students_, pred, canOpenOut)
       IN /\ last' = Call("search", NoStudent, 0, pred, "none", 0, r.results, r.report)
          /\ students_' = r.results
    /\ UNCHANGED <<phase, dbFile, loads, cin, memo_, calls>>

Search(pred, canOpenOut) ==
    /\ phase = "ready"
    /\ LET r == search(students_, pred, canOpenOut)
       IN last' = Call("search", NoStudent, 0, pred, "none", 0, r.results, r.report)
    /\ UNCHANGED <<phase, students_, dbFile, loads, cin, memo_, calls>>

DisplayAll(canOpenOut) ==
    /\ phase = "ready"
    /\ LET r == displayAll(students_, canOpenOut)
       IN last' = Call("displayAll", NoStudent, 0, NoPred, "none", 0, r.results, r.report)
    /\ UNCHANGED <<phase, students_, dbFile, loads, cin, memo_, calls>>

GetSize ==
    /\ phase = "ready"
    /\ last' = Call("getSize", NoStudent, 0, NoPred, "none",
                    getSize(students_), <<>>, "")
    /\ UNCHANGED <<phase, students_, dbFile, loads, cin, memo_, calls>>

Next ==
    \/ Construct
    \/ LoadFromFile
    \/ InitializeSampleData
    \/ \E canOpen \in BOOLEAN : SaveToFile(canOpen)
    \/ \E student \in AddInputs, canOpen \in BOOLEAN : AddStudent(student, canOpen)
    \/ \E id \in IdInputs : FindById(id)
    \/ \E pred \in PredInputs, canOpenOut \in BOOLEAN : Search(pred, canOpenOut)
    \/ \E canOpenOut \in BOOLEAN : DisplayAll(canOpenOut)
    \/ GetSize

Spec == Init /\ [][Next]_vars

(***************************************************************************)
(* Loading alone, from every file of up to MaxFileLines lines of LinePool. *)
(***************************************************************************)
InitLoad ==
    /\ phase = "new"
    /\ students_ = <<>>
    /\ dbFile \in Files
    /\ last = Call("none", NoStudent, 0, NoPred, "none", 0, <<>>, "")
    /\ loads = 0
    /\ cin = <<>>
    /\ memo_ = <<>>
    /\ calls = <<>>

NextLoad ==
    \/ Construct
    \/ LoadFromFile

LoadSpec == InitLoad /\ [][NextLoad]_vars

(***************************************************************************)
(* Student::isValid alone, called on records whose fields take the values  *)
(* at and next to every bound (GPA in hundredths: -0.01, 0, 5.0, 5.01).    *)
(***************************************************************************)
ValidityInputs ==
    { Student(id, surname, birthYear, studyYear, gpa) :
        id \in {0 - 1, 0, 1},
        surname \in {<<>>, Li},
        birthYear \in {1949, 1950, 2015, 2016},
        studyYear \in {0, 1, 4, 5},
        gpa \in {0 - 1, 0, 500, 501} }

\* last.found = 1 when isValid() returned true, 0 when false.
IsValid(student) ==
    /\ last' = Call("isValid", student, 0, NoPred, "none",
                    IF isValid(student) THEN 1 ELSE 0, <<>>, "")
    /\ UNCHANGED <<phase, students_, dbFile, loads, cin, memo_, calls>>

InitValid ==
    /\ phase = "new"
    /\ students_ = <<>>
    /\ dbFile = NoFile
    /\ last = Call("none", NoStudent, 0, NoPred, "none", 0, <<>>, "")
    /\ loads = 0
    /\ cin = <<>>
    /\ memo_ = <<>>
    /\ calls = <<>>

NextValid == \E student \in ValidityInputs : IsValid(student)

ValidSpec == InitValid /\ [][NextValid]_vars

(***************************************************************************)
(* The console program task6: the menu loop over one StudentDatabase.      *)
(* cin holds the characters typed and not yet read; where the text ends    *)
(* the input ends, so an extraction there fails.  Values typed stay within *)
(* the range of int, where static_cast<int> is defined.                    *)
(***************************************************************************)
\* cin.ignore(10000, '\n'): the position after the next newline from i on.
IgnoreLine(buf, i) ==
    IF \E k \in i..Len(buf) : buf[k] = "\n"
    THEN (CHOOSE k \in i..Len(buf) :
              buf[k] = "\n" /\ \A j \in i..(k - 1) : buf[j] # "\n") + 1
    ELSE Len(buf) + 1

\* getline(cin, text): the characters up to the next newline, which is
\* taken from the stream and not stored.
GetLine(buf, i) ==
    LET next == IgnoreLine(buf, i)
        hasNewline == \E k \in i..Len(buf) : buf[k] = "\n"
    IN [val |-> SubSeq(buf, i, IF hasNewline THEN next - 2 ELSE Len(buf)),
        next |-> next]

\* displayMenu: the choice read, -1 when no int can be read; the rest of
\* the line is dropped either way.
displayMenu(buf) ==
    LET r == ExtractInt(buf, 1)
    IN [choice |-> IF r.ok THEN r.val ELSE 0 - 1,
        next |-> IgnoreLine(buf, r.next)]

\* static_cast<int>(value) of a double given in hundredths: towards zero.
TruncToInt(value) ==
    IF value >= 0 THEN value \div 100 ELSE 0 - ((0 - value) \div 100)

\* The predicate handleNumericSearch builds for searchType and value.
NumericPred(searchType, value) ==
    CASE searchType = 1 -> Pred("id", TruncToInt(value), <<>>)
      [] searchType = 3 -> Pred("birthYear", TruncToInt(value), <<>>)
      [] searchType = 4 -> Pred("studyYear", TruncToInt(value), <<>>)
      [] searchType = 5 -> Pred("gpaAtLeast", value, <<>>)
      [] OTHER -> NoPred

handleNumericSearch(students, buf, i, searchType, canOpenOut) ==
    LET value == ExtractReal(buf, i)
        next == IgnoreLine(buf, value.next)
    IN IF ~value.ok
       THEN [parsed |-> FALSE, value |-> 0, pred |-> NoPred, results |-> <<>>,
             report |-> "InvalidInput", next |-> next]
       ELSE LET pred == NumericPred(searchType, value.val)
                r == search(students, pred, canOpenOut)
            IN [parsed |-> TRUE, value |-> value.val, pred |-> pred,
                results |-> r.results, report |-> r.report, next |-> next]

\* What handleAddStudent prints for the outcome of addStudent.
AddReport(error) ==
    CASE error = "none" -> "Added"
      [] error = "CannotOpen" -> "FileError"
      [] OTHER -> "Error"

\* failedAt names the prompt at which handleAddStudent gave up ("none" when
\* every field was read); called tells whether addStudent was called.
GiveUp(students, file, failedAt, report, next) ==
    [failedAt |-> failedAt, called |-> FALSE, student |-> NoStudent,
     students |-> students, file |-> file, error |-> "none",
     report |-> report, next |-> next]

\* try { db.addStudent({id, surname, birthYear, studyYear, gpa}); } catch ...
TryAddStudent(students, file, student, canOpen, next) ==
    LET r == addStudent(students, file, student, canOpen)
    IN [failedAt |-> "none", called |-> TRUE, student |-> student,
        students |-> r.students, file |-> r.file, error |-> r.error,
        report |-> AddReport(r.error), next |-> next]

\* The one member of a set of one member.
Only(S) == CHOOSE x \in S : TRUE

\* A handleAddStudent that reports a GPA it cannot read and goes on with 0.
handleAddStudentKeepsGoing(students, file, buf, i, canOpen) ==
    Only({
      IF ~id.ok
      THEN GiveUp(students, file, "id", "InvalidInput", IgnoreLine(buf, id.next))
      ELSE Only({
        IF surname.val = <<>>
        THEN GiveUp(students, file, "surname", "SurnameEmpty", surname.next)
        ELSE Only({
          IF ~birthYear.ok
          THEN GiveUp(students, file, "birthYear", "InvalidInput",
                      IgnoreLine(buf, birthYear.next))
          ELSE Only({
            IF ~studyYear.ok
            THEN GiveUp(students, file, "studyYear", "InvalidInput",
                        IgnoreLine(buf, studyYear.next))
            ELSE Only({
              [TryAddStudent(students, file,
                             Student(id.val, surname.val, birthYear.val,
                                     studyYear.val, gpa.val),
                             canOpen, IgnoreLine(buf, gpa.next))
               EXCEPT !.failedAt = IF gpa.ok THEN "none" ELSE "gpa",
                      !.called = gpa.ok]
              : gpa \in {ExtractReal(buf, studyYear.next)} })
            : studyYear \in {ExtractInt(buf, birthYear.next)} })
          : birthYear \in {ExtractInt(buf, surname.next)} })
        : surname \in {GetLine(buf, IF id.next <= Len(buf) THEN id.next + 1
                                    ELSE id.next)} })
      : id \in {ExtractInt(buf, i)} })

\* The reads follow one another, the first at the bottom: each
\* "x \in {read}" names what one read gave, and the next read starts where
\* it stopped.  cin.ignore() after the id drops one character.
handleAddStudent(students, file, buf, i, canOpen) ==
    Only({
      IF ~id.ok
      THEN GiveUp(students, file, "id", "InvalidInput", IgnoreLine(buf, id.next))
      ELSE Only({
        IF surname.val = <<>>
        THEN GiveUp(students, file, "surname", "SurnameEmpty", surname.next)
        ELSE Only({
          IF ~birthYear.ok
          THEN GiveUp(students, file, "birthYear", "InvalidInput",
                      IgnoreLine(buf, birthYear.next))
          ELSE Only({
            IF ~studyYear.ok
            THEN GiveUp(students, file, "studyYear", "InvalidInput",
                        IgnoreLine(buf, studyYear.next))
            ELSE Only({
              IF ~gpa.ok
              THEN GiveUp(students, file, "gpa", "InvalidInput",
                          IgnoreLine(buf, gpa.next))
              ELSE TryAddStudent(students, file,
                                 Student(id.val, surname.val, birthYear.val,
                                         studyYear.val, gpa.val),
                                 canOpen, IgnoreLine(buf, gpa.next))
              : gpa \in {ExtractReal(buf, studyYear.next)} })
            : studyYear \in {ExtractInt(buf, birthYear.next)} })
          : birthYear \in {ExtractInt(buf, surname.next)} })
        : surname \in {GetLine(buf, IF id.next <= Len(buf) THEN id.next + 1
                                    ELSE id.next)} })
      : id \in {ExtractInt(buf, i)} })

(***************************************************************************)
(* What is typed in answer to one menu: the choice and the lines its       *)
(* prompts ask for.                                                        *)
(***************************************************************************)
\* choice 1, value 101
TypeSearchId ==
    <<"1", "\n", "1", "0", "1", "\n">>

\* choice 1, value 101.7
TypeSearchIdFraction ==
    <<"1", "\n", "1", "0", "1", ".", "7", "\n">>

\* choice 1, a value that is no number
TypeSearchIdNoNumber ==
    <<"1", "\n", "x", "\n">>

\* choice 2, surname Li
TypeSearchSurname ==
    <<"2", "\n", "L", "i", "\n">>

\* choice 2, an empty line
TypeSearchNoSurname ==
    <<"2", "\n", "\n">>

\* choice 3, value 2004
TypeSearchBirthYear ==
    <<"3", "\n", "2", "0", "0", "4", "\n">>

\* choice 4, value 1.5
TypeSearchStudyYear ==
    <<"4", "\n", "1", ".", "5", "\n">>

\* choice 5, value 4.2
TypeSearchGpa ==
    <<"5", "\n", "4", ".", "2", "\n">>

\* choice 6, the record {106, Orlov, 2005, 1, 4.0}
TypeAddOrlov ==
    <<"6", "\n", "1", "0", "6", "\n", "O", "r", "l", "o", "v", "\n", "2",
      "0", "0", "5", "\n", "1", "\n", "4", ".", "0", "\n">>

\* choice 6, the record {7, Li, 1950, 4, 4.25}
TypeAddLi ==
    <<"6", "\n", "7", "\n", "L", "i", "\n", "1", "9", "5", "0", "\n", "4",
      "\n", "4", ".", "2", "5", "\n">>

\* choice 6, the record {101, Dup, 2000, 1, 3.0}
TypeAddDup ==
    <<"6", "\n", "1", "0", "1", "\n", "D", "u", "p", "\n", "2", "0", "0",
      "0", "\n", "1", "\n", "3", ".", "0", "\n">>

\* choice 6, a record with birth year 1900
TypeAddBornEarly ==
    <<"6", "\n", "9", "\n", "L", "i", "\n", "1", "9", "0", "0", "\n", "1",
      "\n", "3", ".", "0", "\n">>

\* choice 6, an id that is no number
TypeAddNoId ==
    <<"6", "\n", "x", "\n">>

\* choice 6, an empty surname line
TypeAddNoSurname ==
    <<"6", "\n", "9", "\n", "\n">>

\* choice 6, a blank typed after the id: ignore() takes the blank and
\* getline reads an empty surname; the lines that follow are read as menu
\* choices
TypeAddIdThenBlank ==
    <<"6", "\n", "9", " ", "\n", "L", "i", "\n", "2", "0", "0", "0", "\n",
      "1", "\n", "3", ".", "0", "\n">>

\* choice 6, a birth year that is no number
TypeAddNoBirthYear ==
    <<"6", "\n", "9", "\n", "L", "i", "\n", "x", "\n">>

\* choice 6, a study year that is no number
TypeAddNoStudyYear ==
    <<"6", "\n", "9", "\n", "L", "i", "\n", "2", "0", "0", "0", "\n", "x",
      "\n">>

\* choice 6, a GPA that is no number
TypeAddNoGpa ==
    <<"6", "\n", "9", "\n", "L", "i", "\n", "2", "0", "0", "0", "\n", "1",
      "\n", "x", "\n">>

\* choice 7
TypeDisplayAll ==
    <<"7", "\n">>

\* choice 8
TypeExit ==
    <<"8", "\n">>

\* a choice that is no number
TypeNoNumber ==
    <<"x", "\n">>

\* a choice outside 1..8
TypeOtherNumber ==
    <<"9", "\n">>

TurnInputs ==
    { TypeSearchId, TypeSearchIdFraction, TypeSearchIdNoNumber,
      TypeSearchSurname, TypeSearchNoSurname, TypeSearchBirthYear,
      TypeSearchStudyYear, TypeSearchGpa, TypeAddOrlov,
      TypeAddLi, TypeAddDup, TypeAddBornEarly,
      TypeAddNoId, TypeAddNoSurname, TypeAddIdThenBlank,
      TypeAddNoBirthYear, TypeAddNoStudyYear, TypeAddNoGpa,
      TypeDisplayAll, TypeExit, TypeNoNumber,
      TypeOtherNumber }

\* What the last turn of the loop was: the choice read, the value typed for
\* a numeric search, and what the handler did.
Turn(op, choice, value, failedAt, called, student, pred, error, results, report) ==
    [op |-> op, choice |-> choice, value |-> value, failedAt |-> failedAt,
     called |-> called, student |-> student, pred |-> pred, error |-> error,
     results |-> results, report |-> report]

Rest(buf, next) == SubSeq(buf, next, Len(buf))

InitTask6 ==
    /\ phase = "new"
    /\ students_ = <<>>
    /\ dbFile \in StartFiles
    /\ last = Turn("none", 0, 0, "none", FALSE, NoStudent, NoPred, "none", <<>>, "")
    /\ loads = 0
    /\ cin = <<>>
    /\ memo_ = <<>>
    /\ calls = <<>>

\* StudentDatabase db; neither the constructor nor loadFromFile throws.
Task6Construct ==
    /\ phase = "new"
    /\ students_' = StudentDatabase(dbFile)
    /\ phase' = "menu"
    /\ last' = Turn("task6", 0, 0, "none", FALSE, NoStudent, NoPred, "none", <<>>, "")
    /\ UNCHANGED <<dbFile, loads, cin, memo_, calls>>

\* The user answers the menu once everything typed before has been read.
ConsoleInput(text) ==
    /\ phase = "menu"
    /\ cin = <<>>
    /\ cin' = text
    /\ UNCHANGED <<phase, students_, dbFile, last, loads, memo_, calls>>

\* case 1, 3, 4, 5
Task6NumericSearch(canOpenOut) ==
    /\ phase = "menu"
    /\ \E m \in {displayMenu(cin)} :
          /\ m.choice \in {1, 3, 4, 5}
          /\ \E h \in {handleNumericSearch(students_, cin, m.next, m.choice,
                                           canOpenOut)} :
                /\ last' = Turn("handleNumericSearch", m.choice, h.value, "none",
                                h.parsed, NoStudent, h.pred, "none", h.results,
                                h.report)
                /\ cin' = Rest(cin, h.next)
    /\ UNCHANGED <<phase, students_, dbFile, loads, memo_, calls>>

\* case 2
Task6SurnameSearch(canOpenOut) ==
    /\ phase = "menu"
    /\ \E m \in {displayMenu(cin)} :
          /\ m.choice = 2
          /\ \E surname \in {GetLine(cin, m.next)} :
                /\ cin' = Rest(cin, surname.next)
                /\ IF surname.val # <<>>
                   THEN \E r \in {search(students_, Pred("surname", 0, surname.val),
                                         canOpenOut)} :
                           last' = Turn("searchSurname", 2, 0, "none", TRUE,
                                        NoStudent, Pred("surname", 0, surname.val),
                                        "none", r.results, r.report)
                   ELSE last' = Turn("searchSurname", 2, 0, "surname", FALSE,
                                     NoStudent, NoPred, "none", <<>>,
                                     "SurnameEmpty")
    /\ UNCHANGED <<phase, students_, dbFile, loads, memo_, calls>>

\* case 6: handleAddStudent catches what addStudent throws
Task6AddStudent(canOpen) ==
    /\ phase = "menu"
    /\ \E m \in {displayMenu(cin)} :
          /\ m.choice = 6
          /\ \E h \in {handleAddStudent(students_, dbFile, cin, m.next, canOpen)} :
                /\ students_' = h.students
                /\ dbFile' = h.file
                /\ last' = Turn("handleAddStudent", 6, 0, h.failedAt, h.called,
                                h.student, NoPred, h.error, <<>>, h.report)
                /\ cin' = Rest(cin, h.next)
    /\ UNCHANGED <<phase, loads, memo_, calls>>

\* case 7
Task6DisplayAll(canOpenOut) ==
    /\ phase = "menu"
    /\ \E m \in {displayMenu(cin)}, r \in {displayAll(students_, canOpenOut)} :
          /\ m.choice = 7
          /\ last' = Turn("displayAll", 7, 0, "none", TRUE, NoStudent, NoPred,
                          "none", r.results, r.report)
          /\ cin' = Rest(cin, m.next)
    /\ UNCHANGED <<phase, students_, dbFile, loads, memo_, calls>>

\* case 8: return
Task6Exit ==
    /\ phase = "menu"
    /\ \E m \in {displayMenu(cin)} :
          /\ m.choice = 8
          /\ last' = Turn("exit", 8, 0, "none", FALSE, NoStudent, NoPred, "none",
                          <<>>, "Goodbye")
          /\ cin' = Rest(cin, m.next)
    /\ phase' = "done"
    /\ UNCHANGED <<students_, dbFile, loads, memo_, calls>>

\* case -1: no number was read (or the number typed is -1)
Task6InvalidInput ==
    /\ phase = "menu"
    /\ \E m \in {displayMenu(cin)} :
          /\ m.choice = 0 - 1
          /\ last' = Turn("invalidInput", m.choice, 0, "none", FALSE, NoStudent,
                          NoPred, "none", <<>>, "InvalidInput")
          /\ cin' = Rest(cin, m.next)
    /\ UNCHANGED <<phase, students_, dbFile, loads, memo_, calls>>

\* A default branch that leaves the loop.
Task6InvalidChoiceReturns ==
    /\ phase = "menu"
    /\ \E m \in {displayMenu(cin)} :
          /\ m.choice \notin (1..8) \cup {0 - 1}
          /\ last' = Turn("invalidChoice", m.choice, 0, "none", FALSE, NoStudent,
                          NoPred, "none", <<>>, "InvalidChoice")
          /\ cin' = Rest(cin, m.next)
    /\ phase' = "done"
    /\ UNCHANGED <<students_, dbFile, loads, memo_, calls>>

\* default
Task6InvalidChoice ==
    /\ phase = "menu"
    /\ \E m \in {displayMenu(cin)} :
          /\ m.choice \notin (1..8) \cup {0 - 1}
          /\ last' = Turn("invalidChoice", m.choice, 0, "none", FALSE, NoStudent,
                          NoPred, "none", <<>>, "InvalidChoice")
          /\ cin' = Rest(cin, m.next)
    /\ UNCHANGED <<phase, students_, dbFile, loads, memo_, calls>>

NextTask6 ==
    \/ Task6Construct
    \/ \E text \in TurnInputs : ConsoleInput(text)
    \/ \E canOpenOut \in BOOLEAN : Task6NumericSearch(canOpenOut)
    \/ \E canOpenOut \in BOOLEAN : Task6SurnameSearch(canOpenOut)
    \/ \E canOpen \in BOOLEAN : Task6AddStudent(canOpen)
    \/ \E canOpenOut \in BOOLEAN : Task6DisplayAll(canOpenOut)
    \/ Task6Exit
    \/ Task6InvalidInput
    \/ Task6InvalidChoice

Task6Spec == InitTask6 /\ [][NextTask6]_vars

(***************************************************************************)
(* 64-bit integers for FibonacciCalculator.  A number is four limbs of six *)
(* decimal digits, least significant first, so that sums of long long      *)
(* values are exact; a long long is kept as its two's complement bit       *)
(* pattern, a number below 2^64.                                           *)
(***************************************************************************)
LimbBase == 1000000

Big(n) == <<n, 0, 0, 0>>

BigAdd(a, b) ==
    LET s1 == a[1] + b[1]
        s2 == a[2] + b[2] + (s1 \div LimbBase)
        s3 == a[3] + b[3] + (s2 \div LimbBase)
        s4 == a[4] + b[4] + (s3 \div LimbBase)
    IN <<s1 % LimbBase, s2 % LimbBase, s3 % LimbBase, s4>>

BigLess(a, b) ==
    \/ a[4] < b[4]
    \/ a[4] = b[4] /\ a[3] < b[3]
    \/ a[4] = b[4] /\ a[3] = b[3] /\ a[2] < b[2]
    \/ a[4] = b[4] /\ a[3] = b[3] /\ a[2] = b[2] /\ a[1] < b[1]

\* a - b for a >= b
BigSub(a, b) ==
    LET d1 == a[1] - b[1]
        w1 == IF d1 < 0 THEN 1 ELSE 0
        d2 == a[2] - b[2] - w1
        w2 == IF d2 < 0 THEN 1 ELSE 0
        d3 == a[3] - b[3] - w2
        w3 == IF d3 < 0 THEN 1 ELSE 0
    IN <<d1 + w1 * LimbBase, d2 + w2 * LimbBase, d3 + w3 * LimbBase,
         a[4] - b[4] - w3>>

\* 2^63 = 9 223372 036854 775808 and 2^64 = 18 446744 073709 551616
TwoTo63 == <<775808, 36854, 223372, 9>>

TwoTo64 == <<551616, 73709, 446744, 18>>

IsNegative(x) == ~BigLess(x, TwoTo63)

\* a + b on long long: the bits of the sum, and whether the sum of the two
\* signed values is outside the type (undefined behaviour in C++).
AddLongLong(a, b) ==
    LET sum == BigAdd(a, b)
        bits == IF BigLess(sum, TwoTo64) THEN sum ELSE BigSub(sum, TwoTo64)
    IN [bits |-> bits,
        overflow |-> IsNegative(a) = IsNegative(b)
                        /\ IsNegative(bits) # IsNegative(a)]

(***************************************************************************)
(* FibonacciCalculator and fibonacciTask.  compute is recursive; the calls *)
(* in progress are the frames of calls, the innermost last, and one action *)
(* is one branch of the body of the innermost call.  A build is what the   *)
(* compiler is free to choose: whether a signed overflow wraps or stops    *)
(* the program (undefined behaviour), and which operand of                 *)
(* compute(n - 1) + compute(n - 2) is evaluated first (unspecified).       *)
(***************************************************************************)
MAX_N == 100

Builds == [wraps : BOOLEAN, leftFirst : BOOLEAN]

\* fn is the function of the frame; n its argument (for fibonacciTask the
\* number entered); i the loop index of fibonacciTask; a and b the values
\* held by the frame: the operands of the sum in compute, sum and value in
\* fibonacciTask.
Frame(fn, n, i, stage, a, b, build) ==
    [fn |-> fn, n |-> n, i |-> i, stage |-> stage, a |-> a, b |-> b,
     build |-> build]

Top(stack) == stack[Len(stack)]

Pop(stack) == SubSeq(stack, 1, Len(stack) - 1)

ReplaceTop(stack, frame) == [stack EXCEPT ![Len(stack)] = frame]

\* The call compute(n) made by the innermost frame.
CallCompute(stack, n) ==
    Append(stack, Frame("compute", n, 0, "enter", Big(0), Big(0),
                        Top(stack).build))

\* The operands of compute(n - 1) + compute(n - 2) in the order of the build.
FirstOperand(frame) ==
    IF frame.build.leftFirst THEN frame.n - 1 ELSE frame.n - 2

SecondOperand(frame) ==
    IF frame.build.leftFirst THEN frame.n - 2 ELSE frame.n - 1

\* The stack after the innermost call has returned value: the caller goes on
\* from the place of the call.
Return(stack, value) ==
    IF Len(stack) = 1
    THEN <<>>
    ELSE LET rest == Pop(stack)
             caller == Top(rest)
         IN CASE caller.stage = "first" ->
                   CallCompute(ReplaceTop(rest, [caller EXCEPT !.a = value,
                                                               !.stage = "second"]),
                               SecondOperand(caller))
              [] caller.stage = "second" ->
                   ReplaceTop(rest, [caller EXCEPT !.b = value, !.stage = "sum"])
              [] caller.stage = "value" ->
                   ReplaceTop(rest, [caller EXCEPT !.b = value, !.stage = "add"])
              [] caller.stage = "last" ->
                   ReplaceTop(rest, [caller EXCEPT !.b = value,
                                                   !.stage = "statistics"])

StoreOnlyThis(memo, n, value) == (n :> value)

\* memo_[n] = value
Store(memo, n, value) == (n :> value) @@ memo

FibInputs == {0 - 1, 0, 1, 2, 3, 92, 93, 100, 101}

TaskInputs == {0 - 1, 0, 1, 2, 90, 91, 100, 101}

\* What is known of the last call of compute, clearCache or fibonacciTask:
\* before is the cache when the call was made, done whether it has come
\* back, value what compute returned (the last term in fibonacciTask),
\* report the block fibonacciTask ended with, lines the number of F(i)
\* lines written and sum the reported sum.
FibCall(op, n, before, done, value, error, report, lines, sum) ==
    [op |-> op, n |-> n, before |-> before, done |-> done, value |-> value,
     error |-> error, report |-> report, lines |-> lines, sum |-> sum]

InitFib ==
    /\ phase \in {"calculator", "task"}
    /\ students_ = <<>>
    /\ dbFile = NoFile
    /\ last = FibCall("none", 0, <<>>, TRUE, Big(0), "none", "", 0, Big(0))
    /\ loads = 0
    /\ cin = <<>>
    /\ memo_ = <<>>
    /\ calls = <<>>

\* A caller outside the class calls compute(n).
Compute(n, build) ==
    /\ phase = "calculator"
    /\ calls = <<>>
    /\ calls' = <<Frame("compute", n, 0, "enter", Big(0), Big(0), build)>>
    /\ last' = FibCall("compute", n, memo_, FALSE, Big(0), "none", "", 0, Big(0))
    /\ UNCHANGED <<phase, students_, dbFile, loads, cin, memo_>>

\* The innermost call returns value: to its caller, or to the caller outside.
Returns(value) ==
    /\ calls' = Return(calls, value)
    /\ last' = IF Len(calls) = 1
               THEN [last EXCEPT !.done = TRUE, !.value = value]
               ELSE last

\* n < 0 and n > MAX_N: invalid_argument leaves every call in progress;
\* fibonacciTask catches it and reports an input error.
computeThrows ==
    /\ calls # <<>>
    /\ Top(calls).stage = "enter"
    /\ Top(calls).n < 0 \/ Top(calls).n > MAX_N
    /\ calls' = <<>>
    /\ IF calls[1].fn = "fibonacciTask"
       THEN /\ last' = [last EXCEPT !.done = TRUE, !.error = "invalid_argument",
                                    !.report = "InputError",
                                    !.lines = calls[1].i]
            /\ phase' = "finished"
       ELSE /\ last' = [last EXCEPT !.done = TRUE, !.error = "invalid_argument"]
            /\ phase' = phase
    /\ UNCHANGED <<students_, dbFile, loads, cin, memo_>>

\* n <= 1: return n
computeReturnsN ==
    /\ calls # <<>>
    /\ Top(calls).stage = "enter"
    /\ Top(calls).n \in {0, 1}
    /\ Returns(Big(Top(calls).n))
    /\ UNCHANGED <<phase, students_, dbFile, loads, cin, memo_>>

\* already computed: return memo_[n]
computeReturnsCached ==
    /\ calls # <<>>
    /\ Top(calls).stage = "enter"
    /\ Top(calls).n \in 2..MAX_N
    /\ Top(calls).n \in DOMAIN memo_
    /\ Returns(memo_[Top(calls).n])
    /\ UNCHANGED <<phase, students_, dbFile, loads, cin, memo_>>

\* not computed yet: the first operand of the sum is called
computeRecurses ==
    /\ calls # <<>>
    /\ Top(calls).stage = "enter"
    /\ Top(calls).n \in 2..MAX_N
    /\ Top(calls).n \notin DOMAIN memo_
    /\ calls' = CallCompute(ReplaceTop(calls, [Top(calls) EXCEPT !.stage = "first"]),
                            FirstOperand(Top(calls)))
    /\ UNCHANGED <<phase, students_, dbFile, last, loads, cin, memo_>>

\* memo_[n] = compute(n - 1) + compute(n - 2); return memo_[n]
computeCaches ==
    /\ calls # <<>>
    /\ Top(calls).stage = "sum"
    /\ \E sum \in {AddLongLong(Top(calls).a, Top(calls).b)} :
          IF sum.overflow /\ ~Top(calls).build.wraps
          THEN /\ phase' = "stopped"
               /\ UNCHANGED <<last, memo_, calls>>
          ELSE /\ memo_' = Store(memo_, Top(calls).n, sum.bits)
               /\ Returns(sum.bits)
               /\ phase' = phase
    /\ UNCHANGED <<students_, dbFile, loads, cin>>

ClearCache ==
    /\ phase = "calculator"
    /\ calls = <<>>
    /\ memo_' = <<>>
    /\ last' = FibCall("clearCache", 0, memo_, TRUE, Big(0), "none", "", 0, Big(0))
    /\ UNCHANGED <<phase, students_, dbFile, loads, cin, calls>>

\* fibonacciTask up to its loop: parsed is whether cin >> n read a number,
\* canOpen whether output_fibonacci.txt can be opened.
FibonacciTask(parsed, n, canOpen, build) ==
    /\ phase = "task"
    /\ calls = <<>>
    /\ memo_' = <<>>
    /\ IF ~parsed \/ n < 0
       THEN /\ last' = FibCall("fibonacciTask", n, <<>>, TRUE, Big(0),
                               "invalid_argument", "InputError", 0, Big(0))
            /\ phase' = "finished"
            /\ calls' = <<>>
       ELSE IF ~canOpen
       THEN /\ last' = FibCall("fibonacciTask", n, <<>>, TRUE, Big(0),
                               "runtime_error", "FileError", 0, Big(0))
            /\ phase' = "finished"
            /\ calls' = <<>>
       ELSE /\ last' = FibCall("fibonacciTask", n, <<>>, FALSE, Big(0), "none",
                               "", 0, Big(0))
            /\ phase' = phase
            /\ calls' = <<Frame("fibonacciTask", n, 0, "loop", Big(0), Big(0),
                                build)>>
    /\ UNCHANGED <<students_, dbFile, loads, cin>>

\* for (i = 0; i <= n; ++i): value = fib.compute(i); after the loop the
\* statistics block, whose last line calls fib.compute(n).
FibonacciLoop ==
    /\ calls # <<>>
    /\ Top(calls).stage = "loop"
    /\ calls' = IF Top(calls).i <= Top(calls).n
                THEN CallCompute(ReplaceTop(calls, [Top(calls) EXCEPT
                                                       !.stage = "value"]),
                                 Top(calls).i)
                ELSE CallCompute(ReplaceTop(calls, [Top(calls) EXCEPT
                                                       !.stage = "last"]),
                                 Top(calls).n)
    /\ UNCHANGED <<phase, students_, dbFile, last, loads, cin, memo_>>

\* sum += value; the line F(i) = value; ++i
FibonacciAdd ==
    /\ calls # <<>>
    /\ Top(calls).stage = "add"
    /\ \E sum \in {AddLongLong(Top(calls).a, Top(calls).b)} :
          IF sum.overflow /\ ~Top(calls).build.wraps
          THEN /\ phase' = "stopped"
               /\ UNCHANGED <<last, calls>>
          ELSE /\ calls' = ReplaceTop(calls, [Top(calls) EXCEPT
                                                 !.a = sum.bits,
                                                 !.i = Top(calls).i + 1,
                                                 !.stage = "loop"])
               /\ last' = [last EXCEPT !.lines = Top(calls).i + 1,
                                       !.sum = sum.bits]
               /\ phase' = phase
    /\ UNCHANGED <<students_, dbFile, loads, cin, memo_>>

FibonacciStatistics ==
    /\ calls # <<>>
    /\ Top(calls).stage = "statistics"
    /\ calls' = <<>>
    /\ last' = [last EXCEPT !.done = TRUE, !.report = "Statistics",
                            !.value = Top(calls).b, !.sum = Top(calls).a]
    /\ phase' = "finished"
    /\ UNCHANGED <<students_, dbFile, loads, cin, memo_>>

NextFib ==
    \/ \E n \in FibInputs, build \in Builds : Compute(n, build)
    \/ computeThrows
    \/ computeReturnsN
    \/ computeReturnsCached
    \/ computeRecurses
    \/ computeCaches
    \/ ClearCache
    \/ \E parsed \in BOOLEAN, n \in TaskInputs, canOpen \in BOOLEAN,
          build \in Builds : FibonacciTask(parsed, n, canOpen, build)
    \/ FibonacciLoop
    \/ FibonacciAdd
    \/ FibonacciStatistics

FibSpec == InitFib /\ [][NextFib]_vars

(***************************************************************************)
(* task4: the array read from input_task4.txt, its first n values sorted   *)
(* and searched.  A file is whether it can be opened and the integers      *)
(* that operator>> reads from it.                                          *)
(***************************************************************************)
MaxCount == 3

FileValues == {0 - 1, 2, 5}

Keys == {0 - 1, 2, 3}

RECURSIVE IntVectors(_)
IntVectors(len) ==
    IF len = 0 THEN {<<>>}
    ELSE IntVectors(len - 1)
            \cup { Append(v, x) : v \in { w \in IntVectors(len - 1) : Len(w) = len - 1 },
                                  x \in FileValues }

Task4Files ==
    {[exists |-> FALSE, data |-> <<>>]}
        \cup { [exists |-> TRUE, data |-> v] : v \in IntVectors(MaxCount) }

readFromFile(file) ==
    IF ~file.exists THEN [error |-> "NotFound", data |-> <<>>]
    ELSE IF file.data = <<>> THEN [error |-> "Empty", data |-> <<>>]
    ELSE [error |-> "none", data |-> file.data]

min(a, b) == IF b < a THEN b ELSE a

\* std::sort with operator<: the values in ascending order.  InsertSorted
\* puts x behind the values that are not greater.
RECURSIVE InsertSorted(_, _)
InsertSorted(arr, x) ==
    IF arr = <<>> THEN <<x>>
    ELSE IF x < arr[1] THEN <<x>> \o arr
    ELSE <<arr[1]>> \o InsertSorted(Tail(arr), x)

RECURSIVE sort(_)
sort(arr) ==
    IF arr = <<>> THEN <<>>
    ELSE InsertSorted(sort(SubSeq(arr, 1, Len(arr) - 1)), arr[Len(arr)])

\* The loop of searchAndPrint from index i on: the positions pushed.
RECURSIVE PositionsFromSkippingFirst(_, _, _)
PositionsFromSkippingFirst(arr, key, i) ==
    IF i >= Len(arr) THEN <<>>
    ELSE IF arr[i + 1] = key /\ i > 0
         THEN <<i>> \o PositionsFromSkippingFirst(arr, key, i + 1)
         ELSE PositionsFromSkippingFirst(arr, key, i + 1)

RECURSIVE PositionsFrom(_, _, _)
PositionsFrom(arr, key, i) ==
    IF i >= Len(arr) THEN <<>>
    ELSE IF arr[i + 1] = key
         THEN <<i>> \o PositionsFrom(arr, key, i + 1)
         ELSE PositionsFrom(arr, key, i + 1)

\* What follows "Found at: " is the positions, or "Not found" when there are
\* none; the result is positions.size().
searchAndPrint(arr, key) ==
    LET positions == PositionsFrom(arr, key, 0)
    IN [positions |-> positions, notFound |-> positions = <<>>,
        result |-> Len(positions)]

\* What a run of task4 did: error is the runtime_error it reported,
\* original and sorted the two arrays (printed tells whether they were
\* written), found the line of searchAndPrint (searched tells whether it was
\* called), size and occurrences the statistics.
Task4Run(file, n, key, error, original, sorted, printed, searched, found, size) ==
    [op |-> "task4", file |-> file, n |-> n, key |-> key, error |-> error,
     original |-> original, sorted |-> sorted, printed |-> printed,
     searched |-> searched, found |-> found, size |-> size,
     occurrences |-> found.result]

NothingFound == [positions |-> <<>>, notFound |-> FALSE, result |-> 0]

Task4Stops(file, n, key, error) ==
    Task4Run(file, n, key, error, <<>>, <<>>, FALSE, FALSE, NothingFound, 0)

InitTask4 ==
    /\ phase = "task4"
    /\ students_ = <<>>
    /\ dbFile = NoFile
    /\ last = Task4Stops([exists |-> FALSE, data |-> <<>>], 0, 0, "none")
    /\ loads = 0
    /\ cin = <<>>
    /\ memo_ = <<>>
    /\ calls = <<>>

\* parsedN and parsedKey: whether cin >> n and cin >> key read an integer;
\* canOpen: whether output_task4.txt can be opened.
Task4(file, parsedN, enteredN, canOpen, parsedKey, key) ==
    /\ phase = "task4"
    /\ \E read \in {readFromFile(file)} :
       \E n \in {min(enteredN, Len(read.data))} :
       \E original \in {SubSeq(read.data, 1, n)} :
       \E sorted \in {sort(original)} :
          last' =
             IF read.error # "none"
             THEN Task4Stops(file, enteredN, key, read.error)
             ELSE IF ~parsedN
             THEN Task4Stops(file, enteredN, key, "InvalidInput")
             ELSE IF n <= 0
             THEN Task4Stops(file, enteredN, key, "InvalidN")
             ELSE IF ~canOpen
             THEN Task4Stops(file, enteredN, key, "CannotOpen")
             ELSE IF ~parsedKey
             THEN Task4Run(file, enteredN, key, "InvalidInput", original,
                           sorted, TRUE, FALSE, NothingFound, 0)
             ELSE Task4Run(file, enteredN, key, "none", original, sorted, TRUE,
                           TRUE, searchAndPrint(original, key), n)
    /\ phase' = "finished"
    /\ UNCHANGED <<students_, dbFile, loads, cin, memo_, calls>>

NextTask4 ==
    \E file \in Task4Files, parsedN \in BOOLEAN, enteredN \in (0 - 1)..(MaxCount + 1),
       canOpen \in BOOLEAN, parsedKey \in BOOLEAN, key \in Keys :
          Task4(file, parsedN, enteredN, canOpen, parsedKey, key)

Task4Spec == InitTask4 /\ [][NextTask4]_vars

(***************************************************************************)
(* task2: the arithmetic sequence written by a for loop, a while loop and  *)
(* a do-while loop.  One action is one pass through a loop.  The doubles   *)
(* a0 and d take integer values, on which the additions and products of    *)
(* the loops are exact; sum / count is kept as the fraction.  The int n    *)
(* and the loop counter i have LoopIntBits bits here, LoopIntMax standing  *)
(* for INT_MAX, so that a loop can be followed up to the largest n: the    *)
(* ++i that passes the largest int is undefined behaviour, which stops the *)
(* program on a build that traps it and wraps to the smallest int on one   *)
(* that does not.                                                          *)
(***************************************************************************)
LoopIntBits == 4

LoopIntMax == 2 ^ (LoopIntBits - 1) - 1

LoopIntMin == 0 - LoopIntMax - 1

\* a + b on int: the wrapped value, and whether the sum is outside int
AddInt(a, b) ==
    [value |-> ((a + b - LoopIntMin) % (2 ^ LoopIntBits)) + LoopIntMin,
     overflow |-> a + b < LoopIntMin \/ a + b > LoopIntMax]

SUM_LIMIT == 120

A0Values == {0 - 10, 0, 50, 100, 120}

DValues == {0 - 60, 0, 10, 20}

NValues == (0 - 1)..LoopIntMax

\* sum / count, and 0.0
Quotient(sum, count) == [num |-> sum, den |-> count]

Zero == [num |-> 0, den |-> 1]

\* What a loop has written so far: the terms, their sum, and after the loop
\* the reported count and average.
Part(terms, sum, count, average, reported) ==
    [terms |-> terms, sum |-> sum, count |-> count, average |-> average,
     reported |-> reported]

NoPart == Part(<<>>, 0, 0, Zero, FALSE)

\* A run of task2: the values read, the build, the loop counter i and the
\* three parts.
Task2Run(a0, d, n, wraps, error, i, forLoop, whileLoop, doWhile) ==
    [op |-> "task2", a0 |-> a0, d |-> d, n |-> n, wraps |-> wraps,
     error |-> error, i |-> i, forLoop |-> forLoop, whileLoop |-> whileLoop,
     doWhile |-> doWhile]

InitTask2 ==
    /\ phase = "task2"
    /\ students_ = <<>>
    /\ dbFile = NoFile
    /\ last = Task2Run(0, 0, 0, TRUE, "none", 1, NoPart, NoPart, NoPart)
    /\ loads = 0
    /\ cin = <<>>
    /\ memo_ = <<>>
    /\ calls = <<>>

\* task2 up to the first loop.  hasA0: readInitialValue returned a0;
\* parsed: cin >> n and cin >> d read numbers; canOpen: output_task2.txt
\* can be opened.
Task2Start(hasA0, a0, parsed, n, d, canOpen, wraps) ==
    /\ phase = "task2"
    /\ \E error \in {IF ~hasA0 THEN "NoA0"
                     ELSE IF ~parsed THEN "InvalidInput"
                     ELSE IF n < 0 THEN "NegativeN"
                     ELSE IF ~canOpen THEN "CannotOpen"
                     ELSE "none"} :
          /\ last' = Task2Run(a0, d, n, wraps, error, 1, NoPart, NoPart, NoPart)
          /\ phase' = IF error = "none" THEN "for" ELSE "finished"
    /\ UNCHANGED <<students_, dbFile, loads, cin, memo_, calls>>

\* The body shared by the loops: term = a0 + (i - 1) * d is written and
\* added, then ++i.  An overflow of i - 1 or of ++i stops a trapping build.
Pass(part, field, counts) ==
    \E before \in {AddInt(last.i, 0 - 1)}, after \in {AddInt(last.i, 1)} :
    \E term \in {last.a0 + before.value * last.d} :
    \E written \in {Part(Append(part.terms, term), part.sum + term,
                         IF counts THEN part.count + 1 ELSE part.count,
                         part.average, FALSE)} :
       IF before.overflow /\ ~last.wraps
       THEN phase' = "stopped" /\ last' = last
       ELSE IF after.overflow /\ ~last.wraps
       THEN phase' = "stopped" /\ last' = [last EXCEPT ![field] = written]
       ELSE /\ phase' = phase
            /\ last' = [last EXCEPT ![field] = written, !.i = after.value]

\* The lines "Sum: " and "Average: " after a loop; i = 1 for the next one.
Report(part, field, count, then) ==
    /\ last' = [last EXCEPT
                  ![field] = Part(part.terms, part.sum, count,
                                  IF count > 0 THEN Quotient(part.sum, count)
                                  ELSE Zero,
                                  TRUE),
                  !.i = 1]
    /\ phase' = then

\* A loop that has run past the largest int on a wrapping build does not
\* end; the model follows it for this many terms.
MaxEmitted == LoopIntMax + 2

\* for (int i = 1; i <= n; ++i) and the report with n
ForLoop ==
    /\ phase = "for"
    /\ Len(last.forLoop.terms) < MaxEmitted
    /\ IF last.i <= last.n
       THEN Pass(last.forLoop, "forLoop", FALSE)
       ELSE Report(last.forLoop, "forLoop", last.n, "while")
    /\ UNCHANGED <<students_, dbFile, loads, cin, memo_, calls>>

\* while (i <= n) and the report with count = i - 1
WhileLoop ==
    /\ phase = "while"
    /\ Len(last.whileLoop.terms) < MaxEmitted
    /\ IF last.i <= last.n
       THEN Pass(last.whileLoop, "whileLoop", FALSE)
       ELSE Report(last.whileLoop, "whileLoop", AddInt(last.i, 0 - 1).value,
                   "doWhile")
    /\ UNCHANGED <<students_, dbFile, loads, cin, memo_, calls>>

ReachesLimitOnlyAbove(sum, term) == sum + term > SUM_LIMIT

\* if (sum + term >= SUM_LIMIT) break;
ReachesLimit(sum, term) == sum + term >= SUM_LIMIT

\* if (n > 0) do { if (i > n) break; ...; if (sum + term >= SUM_LIMIT)
\* break; ... count++; ++i; } while (true), and the report with count
DoWhileLoop ==
    /\ phase = "doWhile"
    /\ Len(last.doWhile.terms) < MaxEmitted
    /\ IF /\ last.n > 0
          /\ last.i <= last.n
          /\ ~ReachesLimit(last.doWhile.sum,
                           last.a0 + AddInt(last.i, 0 - 1).value * last.d)
       THEN Pass(last.doWhile, "doWhile", TRUE)
       ELSE Report(last.doWhile, "doWhile", last.doWhile.count, "finished")
    /\ UNCHANGED <<students_, dbFile, loads, cin, memo_, calls>>

NextTask2 ==
    \/ \E hasA0 \in BOOLEAN, a0 \in A0Values, parsed \in BOOLEAN,
          n \in NValues, d \in DValues, canOpen \in BOOLEAN, wraps \in BOOLEAN :
             Task2Start(hasA0, a0, parsed, n, d, canOpen, wraps)
    \/ ForLoop
    \/ WhileLoop
    \/ DoWhileLoop

Task2Spec == InitTask2 /\ [][NextTask2]_vars

\* The program goes on running: a loop that can make a pass makes it.
Task2FairSpec == Task2Spec /\ WF_vars(DoWhileLoop)

(***************************************************************************)
(* Vocabulary of the properties.                                           *)
(***************************************************************************)
AllValid(students) == \A i \in 1..Len(students) : isValid(students[i])

UniqueIds(students) ==
    \A i, j \in 1..Len(students) : i # j => students[i].id # students[j].id

StoreInvariant(students) == AllValid(students) /\ UniqueIds(students)

HasId(students, id) == \E i \in 1..Len(students) : students[i].id = id

\* Number of members of idx up to i: the place of i in idx taken in order.
Rank(idx, i) == Cardinality({j \in idx : j <= i})

\* results holds exactly the students at the positions idx, in that order.
IsSelection(results, students, idx) ==
    /\ Len(results) = Cardinality(idx)
    /\ \A i \in idx : results[Rank(idx, i)] = students[i]

\* The lines of a file that are not empty, parse, and give a valid record.
GoodLines(lines) ==
    {i \in 1..Len(lines) :
        /\ lines[i] # <<>>
        /\ ParseLine(lines[i]).ok
        /\ isValid(ParseLine(lines[i]).student)}

NoSpaceInSurnames(students) ==
    \A i \in 1..Len(students) : ~HasSpace(students[i].surname)

OrlovRecord == Student(106, Orlov, 2005, 1, 400)

DupRecord == Student(101, Dup, 2000, 1, 300)

(***************************************************************************)
(* C1.  Once the store is constructed, every record in students_ is valid  *)
(* and no two records have the same id.  The code does not keep this:      *)
(* loadFromFile appends every valid line without looking for its id in     *)
(* students_.                                                              *)
(***************************************************************************)
C1_StoreInvariant == phase = "ready" => StoreInvariant(students_)

(***************************************************************************)
(* C2.  After an addStudent(r) that did not throw, findById(r.id) finds a  *)
(* record equal to r in all five fields.                                   *)
(***************************************************************************)
C2_FindAfterAdd ==
    (last.op = "addStudent" /\ last.error = "none") =>
        LET i == findById(students_, last.student.id)
        IN i # 0 /\ students_[i] = last.student

C2_Witness ==
    /\ last.op = "addStudent" /\ last.error = "none"
    /\ Len(students_) >= 2
    /\ students_[Len(students_)] = last.student

(***************************************************************************)
(* C3.  addStudent of a valid record whose id is already in the store      *)
(* signals the duplicate error and changes neither students_ nor the file. *)
(***************************************************************************)
C3_DuplicateRejected ==
    [][(last'.op = "addStudent" /\ isValid(last'.student)
            /\ HasId(students_, last'.student.id))
        => (/\ last'.error = "DuplicateId"
            /\ students_' = students_
            /\ dbFile' = dbFile)]_vars

C3_Witness ==
    /\ last.op = "addStudent" /\ last.student = DupRecord
    /\ last.error = "DuplicateId"
    /\ students_ = initializeSampleData

(***************************************************************************)
(* C4.  addStudent of a record that breaks a field constraint signals the  *)
(* validation error and changes neither students_ nor the file.            *)
(***************************************************************************)
BreaksConstraint(s) ==
    \/ s.id <= 0
    \/ s.surname = <<>>
    \/ s.birthYear < 1950 \/ s.birthYear > 2015
    \/ s.studyYear < 1 \/ s.studyYear > 4
    \/ s.gpa < 0 \/ s.gpa > 500

C4_InvalidRejected ==
    [][(last'.op = "addStudent" /\ BreaksConstraint(last'.student))
        => (/\ last'.error = "InvalidRecord"
            /\ students_' = students_
            /\ dbFile' = dbFile)]_vars

C4_Witness ==
    /\ last.op = "addStudent" /\ last.error = "InvalidRecord"
    /\ last.student.gpa = 550
    /\ last.student.id > 0 /\ last.student.surname # <<>>
    /\ last.student.birthYear = 2000 /\ last.student.studyYear = 1

(***************************************************************************)
(* C5.  Right after a successful addStudent the file holds one line per    *)
(* record of students_, in store order; after Orlov is added to the five   *)
(* defaults the size is 6 and a store constructed from the file holds 6    *)
(* records, one of them with id 106.                                       *)
(***************************************************************************)
C5_FullRewrite ==
    (last.op = "addStudent" /\ last.error = "none") =>
        /\ dbFile.exists
        /\ Len(dbFile.lines) = Len(students_)
        /\ \A i \in 1..Len(students_) : dbFile.lines[i] = FormatLine(students_[i])
        /\ (students_ = Append(initializeSampleData, OrlovRecord) =>
                /\ getSize(students_) = 6
                /\ Len(StudentDatabase(dbFile)) = 6
                /\ HasId(StudentDatabase(dbFile), 106))

C5_Witness ==
    /\ last.op = "addStudent" /\ last.error = "none"
    /\ last.student = OrlovRecord
    /\ students_ = Append(initializeSampleData, OrlovRecord)

(***************************************************************************)
(* C6.  When no surname holds a blank, a store constructed from the file   *)
(* written by saveToFile equals the store that was saved.  The code does   *)
(* not keep this: the GPA is written with one decimal.                     *)
(***************************************************************************)
C6_RoundTrip ==
    (last.op = "saveToFile" /\ last.error = "none" /\ NoSpaceInSurnames(students_))
        => StudentDatabase(dbFile) = students_

(***************************************************************************)
(* C7.  When the file cannot be opened for writing, saveToFile and         *)
(* addStudent report the storage error; the records stay valid, ids that   *)
(* were unique stay unique, the file is untouched, the record is found by  *)
(* findById, and the next successful addStudent appends its record and     *)
(* writes the whole store.                                                 *)
(***************************************************************************)
C7_StorageFailure ==
    [][/\ (last'.op = "saveToFile" /\ SaveToFile(FALSE)) =>
            /\ last'.error = "CannotOpen"
            /\ students_' = students_
            /\ dbFile' = dbFile
       /\ (last'.op = "addStudent" /\ AddStudent(last'.student, FALSE)
                /\ isValid(last'.student)
                /\ ~HasId(students_, last'.student.id)) =>
            /\ last'.error = "CannotOpen"
            /\ dbFile' = dbFile
            /\ AllValid(students_')
            /\ (UniqueIds(students_) => UniqueIds(students_'))
            /\ findById(students_', last'.student.id) # 0
            /\ students_'[findById(students_', last'.student.id)] = last'.student
       /\ (last.error = "CannotOpen" /\ last'.op = "addStudent"
                /\ last'.error = "none") =>
            /\ students_' = Append(students_, last'.student)
            /\ dbFile'.lines = [i \in 1..Len(students_') |-> FormatLine(students_'[i])]
      ]_vars

C7_Witness ==
    /\ last.op = "addStudent" /\ last.error = "CannotOpen"
    /\ HasId(students_, last.student.id)
    /\ dbFile.exists
    /\ Len(dbFile.lines) < Len(students_)

(***************************************************************************)
(* C8.  search(p) selects exactly the records of the store that satisfy p, *)
(* in store order; no match gives an empty result and the "no records"     *)
(* report, not an error; a predicate true of every record gives the whole  *)
(* store.                                                                  *)
(***************************************************************************)
C8_SearchSelects ==
    last.op = "search" =>
        LET idx == {i \in 1..Len(students_) : Matches(last.pred, students_[i])}
        IN /\ IsSelection(last.results, students_, idx)
           /\ last.error = "none"
           /\ (idx = {} => last.results = <<>> /\ last.report = "NoRecordsFound")
           /\ (idx = 1..Len(students_) => last.results = students_)

C8_Witness ==
    /\ last.op = "search"
    /\ Len(last.results) >= 2
    /\ Len(last.results) < Len(students_)
    /\ last.results[1] # last.results[2]

(***************************************************************************)
(* C9.  loadFromFile never fails; empty lines, lines that do not parse and *)
(* lines that parse to an invalid record add nothing, every other line     *)
(* adds its record, in file order, after the records already there.        *)
(***************************************************************************)
C9_LoadSkipsBadLines ==
    [][(last'.op = "loadFromFile") =>
        LET good == GoodLines(dbFile.lines)
            n == Len(students_)
        IN /\ last'.error = "none"
           /\ dbFile' = dbFile
           /\ Len(students_') = n + Cardinality(good)
           /\ SubSeq(students_', 1, n) = students_
           /\ \A i \in good :
                students_'[n + Rank(good, i)] = ParseLine(dbFile.lines[i]).student
           /\ \A k \in (n + 1)..Len(students_') :
                /\ isValid(students_'[k])
                /\ \E i \in 1..Len(dbFile.lines) :
                      /\ dbFile.lines[i] # <<>>
                      /\ ParseLine(dbFile.lines[i]).ok
                      /\ ParseLine(dbFile.lines[i]).student = students_'[k]
      ]_vars

C9_Witness ==
    /\ last.op = "loadFromFile"
    /\ Len(dbFile.lines) = 2
    /\ Cardinality(GoodLines(dbFile.lines)) = 1
    /\ \E i \in 1..2 : dbFile.lines[i] # <<>> /\ ParseLine(dbFile.lines[i]).ok
                        /\ ~isValid(ParseLine(dbFile.lines[i]).student)

(***************************************************************************)
(* C10.  The constructed store holds the five default records if and only  *)
(* if there is no database file, and with a file it holds only the records *)
(* loaded from it.  The code does not keep this: it seeds the defaults     *)
(* whenever loading gave no record.                                        *)
(***************************************************************************)
C10_SeedIffNoFile ==
    last.op = "StudentDatabase" =>
        /\ (students_ = initializeSampleData <=> ~dbFile.exists)
        /\ (dbFile.exists => students_ = loadFromFile(<<>>, dbFile))

(***************************************************************************)
(* C11.  A store constructed without a database file holds the records     *)
(* with ids 101, 102, 103, 104, 105 in that order, and the search for      *)
(* studyYear = 1 on it selects the records 101 and 103, in that order.     *)
(***************************************************************************)
Ids(students) == [i \in 1..Len(students) |-> students[i].id]

StudyYearOne == Pred("studyYear", 1, <<>>)

C11_DefaultsScenario ==
    (phase = "ready" /\ ~dbFile.exists /\ getSize(students_) = 5) =>
        /\ Ids(students_) = <<101, 102, 103, 104, 105>>
        /\ (last.op = "search" /\ last.pred = StudyYearOne) =>
                Ids(last.results) = <<101, 103>>

C11_Witness ==
    /\ phase = "ready" /\ ~dbFile.exists /\ getSize(students_) = 5
    /\ last.op = "search" /\ last.pred = StudyYearOne
    /\ Len(last.results) = 2

(***************************************************************************)
(* C12.  Every operation on a constructed store leaves the old record      *)
(* sequence as a prefix of the new one, and the size grows by one on a     *)
(* successful addStudent and not at all otherwise.  The code does not keep *)
(* this: initializeSampleData replaces the records, loadFromFile appends   *)
(* the file again, and an addStudent whose write fails keeps its record.   *)
(***************************************************************************)
IsPrefix(a, b) == Len(a) <= Len(b) /\ SubSeq(b, 1, Len(a)) = a

C12_OnlyGrowsByAppend ==
    [][phase = "ready" =>
        /\ IsPrefix(students_, students_')
        /\ getSize(students_') =
             getSize(students_)
             + (IF last'.op = "addStudent" /\ last'.error = "none" THEN 1 ELSE 0)
      ]_vars

(***************************************************************************)
(* C13.  findById(id) gives nullptr exactly when no record has the id, and *)
(* otherwise the one and only record with that id.  With the repeated ids  *)
(* of C1 the record found is the first of several.                         *)
(***************************************************************************)
C13_FindByIdUnique ==
    last.op = "findById" =>
        /\ (last.found = 0 <=> ~HasId(students_, last.id))
        /\ last.found # 0 =>
             /\ students_[last.found].id = last.id
             /\ \A j \in 1..Len(students_) :
                    students_[j].id = last.id => j = last.found

(***************************************************************************)
(* C15.  search, findById, displayAll and getSize change neither the       *)
(* records in memory nor the database file, whether or not a record        *)
(* matches and whether or not the output file opens.                       *)
(***************************************************************************)
C15_QueriesReadOnly ==
    [][(last'.op \in {"search", "findById", "displayAll", "getSize"})
        => (students_' = students_ /\ dbFile' = dbFile)]_vars

C15_Witness ==
    /\ last.op = "search"
    /\ last.report = "CannotOpenOutput"
    /\ Len(last.results) >= 1
    /\ Len(last.results) < Len(students_)
    /\ dbFile.exists

(***************************************************************************)
(* C18.  addStudent tests validity before uniqueness: a record that breaks *)
(* a constraint and carries an id of the store gets the validation error,  *)
(* and the duplicate error is given only to valid records.                 *)
(***************************************************************************)
C18_ValidityBeforeUniqueness ==
    [][(last'.op = "addStudent") =>
        /\ (BreaksConstraint(last'.student) /\ HasId(students_, last'.student.id))
                => last'.error = "InvalidRecord"
        /\ last'.error = "DuplicateId" => ~BreaksConstraint(last'.student)
      ]_vars

C18_Witness ==
    /\ last.op = "addStudent"
    /\ last.error = "InvalidRecord"
    /\ HasId(students_, last.student.id)
    /\ last.student.birthYear = 1900

(***************************************************************************)
(* C14.  isValid() is true exactly when id > 0, the surname is not empty,  *)
(* 1950 <= birthYear <= 2015, 1 <= studyYear <= 4 and 0.0 <= gpa <= 5.0:   *)
(* a record with every field on a bound is accepted, and one with a field  *)
(* just outside its bound is rejected.                                     *)
(***************************************************************************)
OnBounds(s) ==
    /\ s.id = 1
    /\ Len(s.surname) >= 1
    /\ s.birthYear \in {1950, 2015}
    /\ s.studyYear \in {1, 4}
    /\ s.gpa \in {0, 500}

JustOutside(s) ==
    \/ s.id = 0
    \/ Len(s.surname) = 0
    \/ s.birthYear \in {1949, 2016}
    \/ s.studyYear \in {0, 5}
    \/ s.gpa \in {0 - 1, 501}

C14_IsValidExact ==
    (last.op = "isValid") =>
        LET s == last.student
        IN /\ (last.found = 1) <=> (/\ s.id >= 1
                                    /\ Len(s.surname) >= 1
                                    /\ s.birthYear \in 1950..2015
                                    /\ s.studyYear \in 1..4
                                    /\ s.gpa \in 0..500)
           /\ OnBounds(s) => last.found = 1
           /\ JustOutside(s) => last.found = 0

C14_Witness ==
    /\ last.op = "isValid"
    /\ last.found = 1
    /\ last.student.birthYear = 1950
    /\ last.student.studyYear = 4
    /\ last.student.gpa = 500

(***************************************************************************)
(* Vocabulary of the properties of the menu loop.                          *)
(***************************************************************************)
\* The step is the user typing, not a turn of the loop.
Typing == cin = <<>> /\ cin' # <<>>

\* The step is a turn of the loop: a choice is read and its case runs.
LoopTurn == phase = "menu" /\ ~Typing

\* The field of s that the numeric search of the given menu choice compares.
SearchedField(s, choice) ==
    CASE choice = 1 -> s.id
      [] choice = 3 -> s.birthYear
      [] choice = 4 -> s.studyYear

\* The records a fresh load of the file gives.
Persisted(file) == loadFromFile(<<>>, file)

(***************************************************************************)
(* C16.  The menu's searches by id, birth year and study year select a     *)
(* record exactly when its field equals the value typed, so a value that   *)
(* is no integer selects nothing.  The code truncates the value first.     *)
(* (last.value is in hundredths.)                                          *)
(***************************************************************************)
C16_NumericSearchExact ==
    (last.op = "handleNumericSearch" /\ last.called /\ last.choice \in {1, 3, 4})
        => IsSelection(last.results, students_,
                       {i \in 1..Len(students_) :
                            SearchedField(students_[i], last.choice) * 100
                                = last.value})

(***************************************************************************)
(* C17.  When the write fails in addStudent(r) for a valid r with a fresh  *)
(* id, r stays in memory as the last record (the size grew by one),        *)
(* findById finds it, the file was not written and holds no record with    *)
(* the id, and an addStudent with the same id is now a duplicate.          *)
(***************************************************************************)
C17_KeptAfterFailedWrite ==
    [][(LoopTurn /\ last'.op = "handleAddStudent" /\ last'.error = "CannotOpen")
        => LET r == last'.student
           IN /\ ~BreaksConstraint(r) /\ ~HasId(students_, r.id)
              /\ students_' = Append(students_, r)
              /\ getSize(students_') = getSize(students_) + 1
              /\ findById(students_', r.id) = Len(students_')
              /\ dbFile' = dbFile
              /\ ~HasId(Persisted(dbFile'), r.id)
              /\ \A s \in {a \in AddInputs : a.id = r.id /\ isValid(a)},
                    canOpen \in BOOLEAN :
                    LET again == addStudent(students_', dbFile', s, canOpen)
                    IN /\ again.error = "DuplicateId"
                       /\ again.students = students_'
      ]_vars

C17_Witness ==
    /\ last.op = "handleAddStudent"
    /\ last.error = "CannotOpen"
    /\ last.student = OrlovRecord
    /\ students_[Len(students_)] = OrlovRecord
    /\ ~HasId(Persisted(dbFile), 106)

(***************************************************************************)
(* C19.  The loop of task6 is left only in the turn that reads choice 8;   *)
(* after any other choice the menu is shown again over the same store; and *)
(* the records change only in a turn of choice 6 whose addStudent got as   *)
(* far as the write, by that record being appended.                        *)
(***************************************************************************)
C19_LoopLeftOnlyByExit ==
    [][/\ (phase = "menu" /\ phase' # "menu")
            => (phase' = "done" /\ last'.choice = 8)
       /\ (LoopTurn /\ last'.choice # 8) => phase' = "menu"
       /\ (phase = "menu" /\ students_' # students_)
            => /\ last'.choice = 6
               /\ last'.called
               /\ last'.error \in {"none", "CannotOpen"}
               /\ students_' = Append(students_, last'.student)
      ]_vars

C19_Witness ==
    /\ phase = "done"
    /\ last.choice = 8
    /\ HasId(students_, 106)

(***************************************************************************)
(* C20.  handleAddStudent lets no error reach the loop and adds no record  *)
(* that was not entered whole: when the id, birth year, study year or GPA  *)
(* cannot be read or the surname is empty it returns without calling       *)
(* addStudent and the store is as before; what addStudent throws is caught *)
(* and reported, and the menu comes again.                                 *)
(***************************************************************************)
IncompleteEntries ==
    { TypeAddNoId, TypeAddNoSurname, TypeAddIdThenBlank, TypeAddNoBirthYear,
      TypeAddNoStudyYear, TypeAddNoGpa }

C20_AddHandlerContained ==
    [][(LoopTurn /\ last'.op = "handleAddStudent") =>
        /\ phase' = "menu"
        /\ (last'.failedAt # "none" \/ cin \in IncompleteEntries)
              => /\ ~last'.called
                 /\ students_' = students_
                 /\ dbFile' = dbFile
        /\ last'.error \in {"InvalidRecord", "DuplicateId"}
              => (last'.report = "Error" /\ students_' = students_)
        /\ last'.error = "CannotOpen" => last'.report = "FileError"
      ]_vars

C20_Witness ==
    /\ phase = "menu"
    /\ last.op = "handleAddStudent"
    /\ last.failedAt = "gpa"
    /\ ~last.called
    /\ students_ = initializeSampleData

(***************************************************************************)
(* Vocabulary of the properties of the Fibonacci calculator: the sequence  *)
(* over the integers, F(0) = 0, F(1) = 1, F(k + 2) = F(k + 1) + F(k), and  *)
(* the same recurrence taken modulo 2^64.  A triple is F(k), F(k + 1) and  *)
(* F(0) + ... + F(k).                                                      *)
(***************************************************************************)
FibStep(t) == <<t[2], BigAdd(t[1], t[2]), BigAdd(t[3], t[2])>>

RECURSIVE FibSteps(_, _)
FibSteps(t, count) ==
    IF count = 0 THEN t
    ELSE IF count = 1 THEN FibStep(t)
    ELSE Only({ FibSteps(half, count - (count \div 2))
                : half \in {FibSteps(t, count \div 2)} })

Fibonacci(n) == FibSteps(<<Big(0), Big(1), Big(0)>>, n)[1]

FibonacciSum(n) == FibSteps(<<Big(0), Big(1), Big(0)>>, n)[3]

WrapStep(t) == <<t[2], AddLongLong(t[1], t[2]).bits>>

RECURSIVE WrapSteps(_, _)
WrapSteps(t, count) ==
    IF count = 0 THEN t
    ELSE IF count = 1 THEN WrapStep(t)
    ELSE Only({ WrapSteps(half, count - (count \div 2))
                : half \in {WrapSteps(t, count \div 2)} })

\* the values with the indices first..end of the recurrence modulo 2^64
RECURSIVE WrappedFrom(_, _)
WrappedFrom(first, end) ==
    IF first = end
    THEN <<WrapSteps(<<Big(0), Big(1)>>, first)[1]>>
    ELSE WrappedFrom(first, (first + end) \div 2)
            \o WrappedFrom((first + end) \div 2 + 1, end)

WrappedTable == WrappedFrom(1, MAX_N)

\* what compute(n) returns when the cache is empty and overflow wraps
OnEmptyCache(n) == IF n = 0 THEN Big(0) ELSE WrappedTable[n]

ComputeReturned ==
    last.op = "compute" /\ last.done /\ last.error = "none"

(***************************************************************************)
(* C21.  For every n in 0..100, compute(n) returns the n-th Fibonacci      *)
(* number as a signed 64-bit value, and the sum that fibonacciTask reports *)
(* for such an n is F(0) + ... + F(n); no such call stops the program.     *)
(***************************************************************************)
C21_FibonacciFits ==
    /\ (last.op = "compute" /\ last.n \in 0..MAX_N)
          => /\ phase # "stopped"
             /\ ComputeReturned
                   => /\ ~IsNegative(last.value)
                      /\ last.value = Fibonacci(last.n)
    /\ (last.op = "fibonacciTask" /\ last.n \in 0..MAX_N)
          => /\ phase # "stopped"
             /\ last.report = "Statistics"
                   => /\ ~IsNegative(last.sum)
                      /\ last.sum = FibonacciSum(last.n)
                      /\ last.value = Fibonacci(last.n)

(***************************************************************************)
(* C22.  compute(n) with n < 0 or n > 100 throws invalid_argument and      *)
(* leaves the cache as it was; fibonacciTask with an entered n > 100 and   *)
(* an output file that opens ends in the input error report and never     *)
(* writes the statistics block.                                            *)
(***************************************************************************)
C22_OutOfRangeRejected ==
    /\ (last.op = "compute" /\ (last.n < 0 \/ last.n > MAX_N) /\ last.done)
          => /\ last.error = "invalid_argument"
             /\ memo_ = last.before
    /\ (last.op = "fibonacciTask" /\ last.n > MAX_N
           /\ last.error # "runtime_error")
          => /\ phase # "stopped"
             /\ last.report # "Statistics"
             /\ last.done => last.report = "InputError"

(***************************************************************************)
(* C23.  Whatever calls of compute and clearCache came before, every cache *)
(* entry has an index k in 2..100 and the value compute(k) returns on an   *)
(* empty cache; a call compute(n) that returns, returns that same value;   *)
(* and after compute(n) has returned the cache holds every index 2..n.     *)
(***************************************************************************)
C23_CacheConsistent ==
    phase \in {"calculator", "stopped"} =>
       /\ \A k \in DOMAIN memo_ : k \in 2..MAX_N /\ memo_[k] = OnEmptyCache(k)
       /\ ComputeReturned
             => /\ last.value = OnEmptyCache(last.n)
                /\ \A k \in 2..last.n : k \in DOMAIN memo_

C23_Witness ==
    /\ ComputeReturned
    /\ last.n = MAX_N
    /\ last.before # <<>>
    /\ MAX_N \notin DOMAIN last.before
    /\ memo_[MAX_N] = OnEmptyCache(MAX_N)

(***************************************************************************)
(* Vocabulary of the properties of task4.                                  *)
(***************************************************************************)
Occurrences(arr, x) == Cardinality({ i \in 1..Len(arr) : arr[i] = x })

IsPermutation(a, b) ==
    /\ Len(a) = Len(b)
    /\ \A i \in 1..Len(a) : Occurrences(a, a[i]) = Occurrences(b, a[i])

IsAscending(arr) == \A i \in 1..(Len(arr) - 1) : arr[i] <= arr[i + 1]

Task4Ran == phase = "finished" /\ last.op = "task4"

(***************************************************************************)
(* C26.  In task4 on a file of count >= 1 integers with n entered, a size  *)
(* min(n, count) <= 0 is rejected with an error; otherwise the working     *)
(* array is the first min(n, count) values of the file, in file order, and *)
(* the sorted copy is an ascending permutation of it; the search is made   *)
(* on the working array: the positions reported are exactly the indices i  *)
(* with original[i] = key, ascending, the result is their number, and      *)
(* 'Not found' is printed with result 0 when there is none.                *)
(***************************************************************************)
C26_SortedCopyAndSearch ==
    (Task4Ran /\ last.file.exists /\ Len(last.file.data) >= 1
        /\ last.error \notin {"CannotOpen"}
        /\ ~(last.error = "InvalidInput" /\ ~last.printed)) =>
       LET size == min(last.n, Len(last.file.data))
       IN IF size <= 0
          THEN last.error = "InvalidN" /\ ~last.printed /\ ~last.searched
          ELSE /\ last.printed
               /\ last.original = SubSeq(last.file.data, 1, size)
               /\ IsAscending(last.sorted)
               /\ IsPermutation(last.sorted, last.original)
               /\ last.searched =>
                     /\ last.size = size
                     /\ \A j \in 1..Len(last.found.positions) :
                           /\ last.found.positions[j] \in 0..(size - 1)
                           /\ last.original[last.found.positions[j] + 1] = last.key
                           /\ j > 1 => last.found.positions[j - 1]
                                          < last.found.positions[j]
                     /\ \A i \in 0..(size - 1) :
                           last.original[i + 1] = last.key
                              => \E j \in 1..Len(last.found.positions) :
                                    last.found.positions[j] = i
                     /\ last.occurrences = Len(last.found.positions)
                     /\ last.found.result = last.occurrences
                     /\ last.found.notFound <=> last.occurrences = 0

C26_Witness ==
    /\ Task4Ran
    /\ last.searched
    /\ last.original = <<2, 5, 2>>
    /\ last.sorted = <<2, 2, 5>>
    /\ last.key = 2
    /\ last.found.positions = <<0, 2>>
    /\ last.occurrences = 2

(***************************************************************************)
(* Vocabulary of the properties of task2: the terms a0 + (i - 1) * d for   *)
(* i = 1..n and the sum of a sequence.                                     *)
(***************************************************************************)
RECURSIVE Terms(_, _, _)
Terms(a0, d, n) ==
    IF n <= 0 THEN <<>>
    ELSE Append(Terms(a0, d, n - 1), a0 + (n - 1) * d)

RECURSIVE SumOf(_)
SumOf(seq) ==
    IF seq = <<>> THEN 0 ELSE seq[1] + SumOf(Tail(seq))

SameQuotient(p, q) == p.num * q.den = q.num * p.den

Task2Entered ==
    /\ last.op = "task2"
    /\ phase # "task2"
    /\ last.error \notin {"NoA0", "InvalidInput", "CannotOpen"}

(***************************************************************************)
(* C24.  In task2, for every a0, d and n >= 0 the for loop and the while   *)
(* loop each write the n terms a0 + (i - 1) * d, i = 1..n, in this order   *)
(* and no more, and report the same sum and the same average, which is 0   *)
(* when n = 0; a negative n is rejected with an error before any loop      *)
(* runs.                                                                   *)
(***************************************************************************)
C24_ForAndWhileAgree ==
    Task2Entered =>
       IF last.n < 0
       THEN /\ phase = "finished"
            /\ last.error = "NegativeN"
            /\ last.forLoop = NoPart
            /\ last.whileLoop = NoPart
            /\ last.doWhile = NoPart
       ELSE /\ phase # "stopped"
            /\ IsPrefix(last.forLoop.terms, Terms(last.a0, last.d, last.n))
            /\ IsPrefix(last.whileLoop.terms, Terms(last.a0, last.d, last.n))
            /\ last.forLoop.reported
                  => /\ last.forLoop.terms = Terms(last.a0, last.d, last.n)
                     /\ last.forLoop.sum = SumOf(last.forLoop.terms)
                     /\ last.forLoop.average
                           = IF last.n > 0
                             THEN Quotient(last.forLoop.sum, last.n)
                             ELSE Zero
            /\ last.whileLoop.reported
                  => /\ last.whileLoop.terms = last.forLoop.terms
                     /\ last.whileLoop.sum = last.forLoop.sum
                     /\ SameQuotient(last.whileLoop.average,
                                     last.forLoop.average)

(***************************************************************************)
(* C25.  In the do-while part of task2, for every a0, d and n >= 0: the    *)
(* loop ends; the terms written are a prefix of a0, a0 + d, ... of length  *)
(* at most n, the sum after each written term is below 120, and the prefix *)
(* is the longest such (it has n terms or the next term would bring the    *)
(* sum to 120 or more); the reported count is the number of written terms; *)
(* and nothing is written when n = 0.                                      *)
(***************************************************************************)
DoWhilePrefix ==
    (Task2Entered /\ last.error = "none" /\ phase \in {"doWhile", "finished"}) =>
       LET all == Terms(last.a0, last.d, last.n)
           len == Len(last.doWhile.terms)
       IN /\ IsPrefix(last.doWhile.terms, all)
          /\ \A k \in 1..len : SumOf(SubSeq(all, 1, k)) < SUM_LIMIT
          /\ last.n = 0 => last.doWhile.terms = <<>>
          /\ last.doWhile.reported <=> phase = "finished"
          /\ last.doWhile.reported
                => /\ len = Len(all)
                        \/ SumOf(SubSeq(all, 1, len + 1)) >= SUM_LIMIT
                   /\ last.doWhile.count = len
                   /\ last.doWhile.sum = SumOf(last.doWhile.terms)

====
